---- MODULE Spec2Model ----
(***************************************************************************)
(* A model of the resume scoring service: ResumeScorer (src/scoring.py),   *)
(* the analyze and job-match request handlers (src/main.py) and the        *)
(* resume_scores / resume_job_matches tables (src/models.py).              *)
(*                                                                         *)
(* Text is modelled by TLA+ strings, taken apart character by character    *)
(* with SubSeq.  Readability values are fixed-point integers in hundredths *)
(* (51.49 is 5149); the weighted sum is computed exactly in thousandths,   *)
(* which agrees with Python's float arithmetic on every value of the       *)
(* domain (sub-scores that are multiples of 5 and 10, two decimals of      *)
(* readability).                                                           *)
(***************************************************************************)
EXTENDS Integers, Sequences, FiniteSets, TLC

VARIABLES
    TARGET_SKILLS,      \* scorer.TARGET_SKILLS, the attribute shared by all calls
    tool,               \* state of the grammar engine behind scorer.tool
    pc,                 \* pc[c]: position of generate_score call c
    resume_text,        \* resume_text[c]: the argument of call c, when a string
    none_text,          \* the calls whose argument is None
    matched_skills,     \* matched_skills[c]: local of generate_score
    readability_score,  \* readability_score[c]: local, in hundredths
    matches,            \* matches[c]: what self.tool.check returned to call c
    grammar,            \* grammar[c]: (grammar_score, grammar_errors) local
    result,             \* result[c]: what call c returned or raised
    resumes,            \* the resumes table with its relationships, by id
    job_postings,       \* the job_postings table, rows in id order
    resume_job_matches, \* the resume_job_matches table, rows in id order
    match_response,     \* the last response of /match/resume/../job/..
    resume_scores,      \* the resume_scores table, rows in id order
    request             \* request[r]: an analyze request being handled

scorerVars == <<TARGET_SKILLS, tool, pc, resume_text, none_text,
                matched_skills, readability_score, matches, grammar, result>>
matchVars == <<job_postings, resume_job_matches, match_response>>
analyzeVars == <<resume_scores, request>>

vars == <<scorerVars, resumes, matchVars, analyzeVars>>

----------------------------------------------------------------------------
(* Bounds of the model *)

\* longest free-form text, in words
MaxWords == 2
\* longest skill-list text, in listed skills
MaxListed == 11
\* most errors the grammar engine reports for one text
MaxErrors == 21

----------------------------------------------------------------------------
(* Python built-ins used by the code *)

Min(a, b) == IF a < b THEN a ELSE b
Max(a, b) == IF a > b THEN a ELSE b

\* round(num/den) for num >= 0, den > 0: Python 3 rounds halves to even
PyRound(num, den) ==
    LET q == num \div den
        r == num % den
    IN  IF 2 * r > den \/ (2 * r = den /\ q % 2 = 1) THEN q + 1 ELSE q

\* int(num/den) for num >= 0, den > 0: truncation
PyInt(num, den) == num \div den

UpperCase == "ABCDEFGHIJKLMNOPQRSTUVWXYZ"
LowerCase == "abcdefghijklmnopqrstuvwxyz"

\* str.lower() on one character
LowerChar(ch) ==
    IF \E i \in 1..Len(UpperCase) : SubSeq(UpperCase, i, i) = ch
    THEN LET i == CHOOSE j \in 1..Len(UpperCase) : SubSeq(UpperCase, j, j) = ch
         IN  SubSeq(LowerCase, i, i)
    ELSE ch

RECURSIVE lower(_)
\* str.lower(), computed on the two halves of the string
lower(s) ==
    IF Len(s) = 0 THEN ""
    ELSE IF Len(s) = 1 THEN LowerChar(s)
    ELSE LET h == Len(s) \div 2
         IN  lower(SubSeq(s, 1, h)) \o lower(SubSeq(s, h + 1, Len(s)))

\* sub in s, on strings
StrIn(sub, s) ==
    \E i \in 1..(Len(s) - Len(sub) + 1) : SubSeq(s, i, i + Len(sub) - 1) = sub

Digits == "0123456789"

RECURSIVE IntToStr(_)
\* str(n) for n >= 0, as an f-string formats it
IntToStr(n) ==
    IF n < 10 THEN SubSeq(Digits, n + 1, n + 1)
    ELSE IntToStr(n \div 10) \o SubSeq(Digits, (n % 10) + 1, (n % 10) + 1)

\* x in xs, on lists
ListIn(x, xs) == \E i \in 1..Len(xs) : xs[i] = x

\* set(xs)
ToSet(xs) == {xs[i] : i \in 1..Len(xs)}

----------------------------------------------------------------------------
(* ResumeScorer, src/scoring.py *)

\* the list assigned to self.TARGET_SKILLS by ResumeScorer.__init__
VOCABULARY ==
    << "python", "java", "c++", "javascript", "sql", "html", "css",
       "react", "angular", "vue", "nodejs", "django", "flask", "git",
       "docker", "kubernetes", "aws", "azure", "gcp", "machine learning",
       "deep learning", "nlp", "data analysis", "pandas", "numpy",
       "scikit-learn", "tensorflow", "pytorch", "api", "rest",
       "mongodb", "postgresql", "mysql" >>

Whitespace == {" ", "\n"}
Punctuation == {",", ".", ":", "-"}

\* the character at position i starts or continues a word
WordAt(s, i) ==
    /\ SubSeq(s, i, i) \notin Whitespace
    /\ SubSeq(s, i, i) \notin Punctuation

\* the positions where a word starts, and those where one ends
WordStarts(s) ==
    {i \in 1..Len(s) : WordAt(s, i) /\ (i = 1 \/ ~WordAt(s, i - 1))}
WordEnds(s) ==
    {j \in 1..Len(s) : WordAt(s, j) /\ (j = Len(s) \/ ~WordAt(s, j + 1))}

\* the word that starts at position i, given the positions where words end
WordFrom(s, i, ends) ==
    SubSeq(s, i, CHOOSE e \in ends : e >= i /\ \A f \in ends : f >= i => e <= f)

\* the tokens of s, given where its words start and end
TokensOf(s, starts, ends) ==
    {WordFrom(s, i, ends) : i \in starts}
        \cup {SubSeq(s, i, i) : i \in {k \in 1..Len(s) :
                                           SubSeq(s, k, k) \in Punctuation}}

\* self.nlp(text): the texts of the tokens of the document.  Words are
\* split at white space, punctuation marks are tokens of their own.
Tokenize(s) == TokensOf(s, WordStarts(s), WordEnds(s))

\* mutant: a token counts when it is part of a vocabulary entry
TokenLoopSubstring(doc, target) ==
    {t \in doc : \E i \in 1..Len(target) : StrIn(t, target[i])}

\* for token in doc: if token.text in self.TARGET_SKILLS: found_skills.add(...)
TokenLoop(doc, target) == {t \in doc : ListIn(t, target)}

\* mutant: every entry counts when the text contains it, in one tier
PhraseLoopAnyEntry(low, target) ==
    {target[i] : i \in {k \in 1..Len(target) : StrIn(target[k], low)}}

\* for skill in self.TARGET_SKILLS: if ' ' in skill and skill in text.lower()
PhraseLoop(low, target) ==
    {target[i] : i \in {k \in 1..Len(target) :
                            StrIn(" ", target[k]) /\ StrIn(target[k], low)}}

RECURSIVE ListOfSet(_)
\* list(found_skills): the elements of the set, each once, in the order the
\* iteration of the set gives them
ListOfSet(found) ==
    IF found = {} THEN <<>>
    ELSE LET x == CHOOSE y \in found : TRUE
         IN  <<x>> \o ListOfSet(found \ {x})

\* the body of analyze_skills, on the lower-cased text
FoundSkills(low, target) ==
    ListOfSet(TokenLoop(Tokenize(low), target) \cup PhraseLoop(low, target))

\* ResumeScorer.analyze_skills
analyze_skills(text, target) == FoundSkills(lower(text), target)

\* ResumeScorer.calculate_readability, on the raw Flesch score in hundredths
calculate_readability(raw) == Max(0, Min(10000, raw))

\* mutant: the list is cut to ten errors before the score is computed
check_grammar_truncated(ms) ==
    [score |-> Max(0, 100 - (Min(Len(ms), 10) * 5)), matches |-> ms]

\* ResumeScorer.check_grammar, on the matches ms the engine returned
check_grammar(ms) ==
    [score |-> Max(0, 100 - (Len(ms) * 5)), matches |-> ms]

\* mutant: the cap at 100 is missing
SkillsScoreNoCap(matched) == Len(matched) * 10

\* min(100, len(matched_skills) * 10)
SkillsScore(matched) == Min(100, Len(matched) * 10)

\* final_score, in thousandths
FinalScore(skills, readability, gscore) ==
    (skills * 400) + (readability * 3) + (gscore * 300)

\* grammar_errors[:10]
Top10(ms) == SubSeq(ms, 1, Min(Len(ms), 10))

\* list(set(self.TARGET_SKILLS) - set(matched_skills)), as a set
MissingSkills(target, matched) == ToSet(target) \ ToSet(matched)

\* the feedback dictionary of generate_score
Feedback(skills, readability, gscore, ms) ==
    [skills      |-> IF skills > 50
                     THEN "Great job on listing relevant skills!"
                     ELSE "Consider adding more industry-standard skills.",
     readability |-> IF readability > 6000
                     THEN "Your resume is easy to read."
                     ELSE "Try using shorter sentences and simpler words.",
     grammar     |-> IF gscore > 80
                     THEN "Excellent grammar!"
                     ELSE "Found " \o IntToStr(Len(ms))
                              \o " grammar issues."]

\* the dictionary generate_score returns
Report(target, matched, readability, g) ==
    [kind              |-> "report",
     overall_score     |-> PyRound(FinalScore(SkillsScore(matched), readability,
                                              g.score), 1000),
     skills_score      |-> SkillsScore(matched),
     readability_score |-> PyRound(readability, 100),
     grammar_score     |-> g.score,
     matched_skills    |-> matched,
     missing_skills    |-> MissingSkills(target, matched),
     feedback          |-> Feedback(SkillsScore(matched), readability, g.score,
                                    g.matches),
     grammar_errors    |-> Top10(g.matches)]

\* an exception leaving generate_score
Raised(error) == [kind |-> "raised", error |-> error]

NoResult == [kind |-> "none"]

----------------------------------------------------------------------------
(* Inputs *)

\* words of the free-form texts
Pieces == {"Python", "javascript", "machine", "learning", "learnings."}
Separators == {" ", ", "}

\* the texts of prev, and those with one more word
OneMoreWord(prev) ==
    prev \cup Pieces
         \cup {t \o sep \o p : t \in prev \ {""}, sep \in Separators, p \in Pieces}

RECURSIVE FreeTexts(_)
\* the texts of at most n words
FreeTexts(n) == IF n = 0 THEN {""} ELSE OneMoreWord(FreeTexts(n - 1))

RECURSIVE Join(_, _, _)
\* sep.join(xs[:k])
Join(sep, xs, k) ==
    IF k = 0 THEN ""
    ELSE IF k = 1 THEN xs[1]
    ELSE Join(sep, xs, k - 1) \o sep \o xs[k]

\* a text that lists the first k skills of the vocabulary
ListText(k) == "Skills: " \o Join(", ", VOCABULARY, k)

\* the text of the scenario of the matcher's two tiers
ScenarioText ==
    "I have experience in Python and also Machine Learning techniques."

Texts ==
    FreeTexts(MaxWords) \cup {ListText(k) : k \in 0..MaxListed}
                        \cup {ScenarioText}

\* raw scores textstat.flesch_reading_ease can return, in hundredths
RawScores == {-2550, 49, 5160, 6000, 6001, 20684}

\* textstat.flesch_reading_ease of a text without words: no sentence length
\* and no syllables are taken off the base 206.835, returned as 206.84
EmptyTextFlesch == 20684

\* what textstat.flesch_reading_ease can return for a text, in hundredths
FleschScores(text) == IF text = "" THEN {EmptyTextFlesch} ELSE RawScores

\* the matches LanguageTool.check returns: n errors, named by their position
Matches(n) == [i \in 1..n |-> i]

\* how many matches LanguageTool.check can return for a text: none for the
\* empty text
ErrorCounts(text) == IF text = "" THEN {0} ELSE 0..MaxErrors

----------------------------------------------------------------------------
(* generate_score, one step per statement *)

\* the call ids of the specification Spec: one call at a time
OneCall == {1}
CallIds == {1, 2}

InitScorer ==
    /\ TARGET_SKILLS = VOCABULARY
    /\ tool \in {"up", "down"}
    /\ pc = [c \in CallIds |-> "idle"]
    /\ resume_text = [c \in CallIds |-> ""]
    /\ none_text = {}
    /\ matched_skills = [c \in CallIds |-> <<>>]
    /\ readability_score = [c \in CallIds |-> 0]
    /\ matches = [c \in CallIds |-> <<>>]
    /\ grammar = [c \in CallIds |-> check_grammar(<<>>)]
    /\ result = [c \in CallIds |-> NoResult]

\* scorer.generate_score(text) is entered
Call(c, text) ==
    /\ pc[c] = "idle"
    /\ resume_text' = [resume_text EXCEPT ![c] = text]
    /\ pc' = [pc EXCEPT ![c] = "analyze_skills"]
    /\ UNCHANGED <<TARGET_SKILLS, tool, matched_skills, readability_score,
                   matches, grammar, result>>
    /\ UNCHANGED <<none_text, resumes, matchVars, analyzeVars>>

\* scorer.generate_score(None) is entered
CallNone(c) ==
    /\ pc[c] = "idle"
    /\ none_text' = none_text \cup {c}
    /\ pc' = [pc EXCEPT ![c] = "analyze_skills"]
    /\ UNCHANGED <<TARGET_SKILLS, tool, resume_text, matched_skills,
                   readability_score, matches, grammar, result>>
    /\ UNCHANGED <<resumes, matchVars, analyzeVars>>

\* mutant: the skills found are taken out of the scorer's list
AnalyzeSkillsConsuming(c) ==
    /\ pc[c] = "analyze_skills"
    /\ c \notin none_text
    /\ matched_skills' =
           [matched_skills EXCEPT ![c] = analyze_skills(resume_text[c],
                                                        TARGET_SKILLS)]
    /\ TARGET_SKILLS' =
           SelectSeq(TARGET_SKILLS,
                     LAMBDA x : ~ListIn(x, analyze_skills(resume_text[c],
                                                          TARGET_SKILLS)))
    /\ pc' = [pc EXCEPT ![c] = "calculate_readability"]
    /\ UNCHANGED <<tool, resume_text, readability_score, matches, grammar,
                   result>>
    /\ UNCHANGED <<none_text, resumes, matchVars, analyzeVars>>

\* matched_skills = self.analyze_skills(resume_text)
AnalyzeSkills(c) ==
    /\ pc[c] = "analyze_skills"
    /\ c \notin none_text
    /\ matched_skills' =
           [matched_skills EXCEPT ![c] = analyze_skills(resume_text[c],
                                                        TARGET_SKILLS)]
    /\ pc' = [pc EXCEPT ![c] = "calculate_readability"]
    /\ UNCHANGED <<TARGET_SKILLS, tool, resume_text, readability_score,
                   matches, grammar, result>>
    /\ UNCHANGED <<none_text, resumes, matchVars, analyzeVars>>

\* doc = self.nlp(text.lower()) with text None: None has no attribute lower,
\* and nothing in analyze_skills or generate_score catches the error
AnalyzeSkillsRaises(c) ==
    /\ pc[c] = "analyze_skills"
    /\ c \in none_text
    /\ result' = [result EXCEPT ![c] = Raised("AttributeError")]
    /\ pc' = [pc EXCEPT ![c] = "done"]
    /\ UNCHANGED <<TARGET_SKILLS, tool, resume_text, matched_skills,
                   readability_score, matches, grammar>>
    /\ UNCHANGED <<none_text, resumes, matchVars, analyzeVars>>

\* readability_score = self.calculate_readability(resume_text)
CalculateReadability(c, raw) ==
    /\ pc[c] = "calculate_readability"
    /\ readability_score' =
           [readability_score EXCEPT ![c] = calculate_readability(raw)]
    /\ pc' = [pc EXCEPT ![c] = "check_grammar"]
    /\ UNCHANGED <<TARGET_SKILLS, tool, resume_text, matched_skills, matches,
                   grammar, result>>
    /\ UNCHANGED <<none_text, resumes, matchVars, analyzeVars>>

\* grammar_score, grammar_errors = self.check_grammar(resume_text)
CheckGrammar(c, n) ==
    /\ pc[c] = "check_grammar"
    /\ tool = "up"
    /\ matches' = [matches EXCEPT ![c] = Matches(n)]
    /\ grammar' = [grammar EXCEPT ![c] = check_grammar(Matches(n))]
    /\ pc' = [pc EXCEPT ![c] = "aggregate"]
    /\ UNCHANGED <<TARGET_SKILLS, tool, resume_text, matched_skills,
                   readability_score, result>>
    /\ UNCHANGED <<none_text, resumes, matchVars, analyzeVars>>

\* self.tool.check(text) raises: nothing in check_grammar or generate_score
\* catches it
CheckGrammarRaises(c) ==
    /\ pc[c] = "check_grammar"
    /\ tool = "down"
    /\ result' = [result EXCEPT ![c] = Raised("EngineUnavailable")]
    /\ pc' = [pc EXCEPT ![c] = "done"]
    /\ UNCHANGED <<TARGET_SKILLS, tool, resume_text, matched_skills,
                   readability_score, matches, grammar>>
    /\ UNCHANGED <<none_text, resumes, matchVars, analyzeVars>>

\* lines 47-69: the scores, the feedback and the returned dictionary
Aggregate(c) ==
    /\ pc[c] = "aggregate"
    /\ result' = [result EXCEPT ![c] =
                      Report(TARGET_SKILLS, matched_skills[c],
                             readability_score[c], grammar[c])]
    /\ pc' = [pc EXCEPT ![c] = "done"]
    /\ UNCHANGED <<TARGET_SKILLS, tool, resume_text, matched_skills,
                   readability_score, matches, grammar>>
    /\ UNCHANGED <<none_text, resumes, matchVars, analyzeVars>>

\* None, and a value that is present, in a nullable column
None == <<>>
Some(x) == <<x>>

\* a stored resume: the columns and relationships the handlers read
Profile(summary, skills) ==
    [summary          |-> summary,
     skills           |-> skills,
     name             |-> Some("Ann"),
     email            |-> Some("ann@x.io"),
     phone            |-> None,
     work_experiences |-> <<>>,
     projects         |-> <<>>,
     educations       |-> <<>>]

\* no request was made yet
InitTables ==
    /\ job_postings = <<>>
    /\ resume_job_matches = <<>>
    /\ match_response = NoResult
    /\ resume_scores = <<>>
    /\ request = <<>>

Init ==
    /\ InitScorer
    /\ resumes = [id \in {1} |-> Profile(None, {})]
    /\ InitTables

Next ==
    \E c \in OneCall :
        \/ \E text \in Texts : Call(c, text)
        \/ CallNone(c)
        \/ AnalyzeSkills(c)
        \/ AnalyzeSkillsRaises(c)
        \/ \E raw \in FleschScores(resume_text[c]) :
               CalculateReadability(c, raw)
        \/ \E n \in ErrorCounts(resume_text[c]) : CheckGrammar(c, n)
        \/ CheckGrammarRaises(c)
        \/ Aggregate(c)

Spec == Init /\ [][Next]_vars

----------------------------------------------------------------------------
(* Claims about generate_score *)

\* call c has returned a report
Returned(c) == pc[c] = "done" /\ result[c].kind = "report"

\* C1: in every returned report, overall_score is
\* round(0.4*skills_score + 0.3*readability_score + 0.3*grammar_score) of the
\* sub-scores the report itself contains.
C1_OverallFromReportedScores ==
    \A c \in CallIds :
        Returned(c) =>
            result[c].overall_score =
                PyRound((400 * result[c].skills_score)
                            + (300 * result[c].readability_score)
                            + (300 * result[c].grammar_score), 1000)

\* C2: with n errors detected by the engine, grammar_score is
\* max(0, 100 - 5*n) for the full n, and grammar_errors is the first
\* min(n, 10) of them in their order.
C2_ScoreOnFullCount ==
    \A c \in CallIds :
        Returned(c) =>
            LET n == Len(matches[c])
            IN  /\ result[c].grammar_score = Max(0, 100 - (5 * n))
                /\ Len(result[c].grammar_errors) = Min(n, 10)
                /\ \A i \in 1..Min(n, 10) :
                       result[c].grammar_errors[i] = matches[c][i]

\* C2 witness: a report for a text with more than ten errors
C2_Witness ==
    \E c \in CallIds :
        /\ Returned(c)
        /\ Len(matches[c]) = 12
        /\ Len(result[c].grammar_errors) = 10
        /\ result[c].grammar_score = 40

\* C3: matched_skills and missing_skills of a report are disjoint, their
\* union is the vocabulary, and nothing outside it is reported as matched.
C3_MatchedMissingPartition ==
    \A c \in CallIds :
        Returned(c) =>
            /\ ToSet(result[c].matched_skills) \cap result[c].missing_skills = {}
            /\ ToSet(result[c].matched_skills) \cup result[c].missing_skills
                   = ToSet(VOCABULARY)
            /\ ToSet(result[c].matched_skills) \subseteq ToSet(VOCABULARY)

\* C3 witness: a report with some skills matched, from a text that also has
\* words outside the vocabulary
C3_Witness ==
    \E c \in CallIds :
        /\ Returned(c)
        /\ resume_text[c] = "machine, Python"
        /\ result[c].matched_skills = <<"python">>
        /\ Cardinality(result[c].missing_skills) = Len(VOCABULARY) - 1

\* C4: skills_score is min(100, 10 * |matched_skills|) with matched_skills
\* free of duplicates: a multiple of 10 in 0..100, and 100 from ten matched
\* skills on.
C4_SkillsScore ==
    \A c \in CallIds :
        Returned(c) =>
            LET m == result[c].matched_skills
            IN  /\ Cardinality(ToSet(m)) = Len(m)
                /\ result[c].skills_score = Min(100, 10 * Cardinality(ToSet(m)))
                /\ result[c].skills_score \in {10 * k : k \in 0..10}
                /\ (Len(m) >= 10 => result[c].skills_score = 100)

\* C4 witness: a report with more than ten matched skills
C4_Witness ==
    \E c \in CallIds :
        /\ Returned(c)
        /\ Len(result[c].matched_skills) = 11
        /\ result[c].skills_score = 100

\* C6: with the grammar engine unavailable, generate_score still returns a
\* report: skills and readability as usual, grammar_score 100 and no errors.
C6_DegradesWhenEngineDown ==
    \A c \in CallIds :
        (pc[c] = "done" /\ tool = "down") =>
            /\ result[c].kind = "report"
            /\ result[c].grammar_score = 100
            /\ result[c].grammar_errors = <<>>
            /\ result[c].skills_score = SkillsScore(matched_skills[c])
            /\ result[c].readability_score = PyRound(readability_score[c], 100)

----------------------------------------------------------------------------
(* Job postings and the job match, src/main.py *)

\* most rows the resume_job_matches table grows to
MaxMatchRows == 1
\* longest required_skills list of a posting
MaxRequired == 3

Quote == "\""

\* json.dumps of a list of strings
json_dumps(xs) ==
    "[" \o Join(", ", [i \in 1..Len(xs) |-> Quote \o xs[i] \o Quote], Len(xs))
        \o "]"

\* the positions of the quotes in s
QuotesIn(s) == {i \in 1..Len(s) : SubSeq(s, i, i) = Quote}

\* the n-th of the positions q, in increasing order
Nth(q, n) == CHOOSE i \in q : Cardinality({j \in q : j <= i}) = n

\* the strings of s, given the positions q of its quotes: the k-th string
\* lies between quotes 2k-1 and 2k
StringsOf(s, q) ==
    [k \in 1..(Cardinality(q) \div 2) |->
        SubSeq(s, Nth(q, (2 * k) - 1) + 1, Nth(q, 2 * k) - 1)]

\* json.loads of the text of a list of strings
json_loads(s) == StringsOf(s, QuotesIn(s))

\* the exception Python raises on a division by zero
ZeroDivisionError == [kind |-> "raised", error |-> "ZeroDivisionError"]

\* a / b as an exact fraction
TrueDiv(a, b) ==
    IF b = 0 THEN ZeroDivisionError
    ELSE [kind |-> "number", num |-> a, den |-> b]

\* x * k, an exception passing through
Times(x, k) ==
    IF x.kind = "raised" THEN x ELSE [x EXCEPT !.num = x.num * k]

\* mutant: the names of the resume are compared as stored
ResumeSkillSetAsStored(names) == names

\* set([skill.name.lower() for skill in resume.skills])
ResumeSkillSet(names) == {lower(n) : n \in names}

\* set([s.lower() for s in json.loads(job.required_skills)])
RequiredSkillSet(text) == {lower(x) : x \in ToSet(json_loads(text))}

\* mutant: the division is not guarded
MatchPercentageUnguarded(matched, required) ==
    Times(TrueDiv(Cardinality(matched), Cardinality(required)), 100)

\* (len(matched) / len(required_skills) * 100) if required_skills else 0
MatchPercentage(matched, required) ==
    IF required # {}
    THEN Times(TrueDiv(Cardinality(matched), Cardinality(required)), 100)
    ELSE [kind |-> "number", num |-> 0, den |-> 1]

\* raise HTTPException(status_code, detail)
HTTPException(status_code, detail) ==
    [kind |-> "error", status_code |-> status_code, detail |-> detail]

\* the response to a request whose handler let an exception escape
InternalServerError(error) ==
    [kind |-> "error", status_code |-> 500, detail |-> error]

\* the names a resume's skills are drawn from, and those of a posting
CandidateNames == {"python", "Docker", "java"}
RequiredNames == {"python", "Python", "sql", "docker"}

\* the lists of prev, and those with one more element of S
OneMoreElement(prev, S) == prev \cup {Append(xs, x) : xs \in prev, x \in S}

RECURSIVE ListsUpTo(_, _)
\* the lists of at most n elements of S
ListsUpTo(S, n) ==
    IF n = 0 THEN {<<>>} ELSE OneMoreElement(ListsUpTo(S, n - 1), S)

\* POST /jobs/: the posting is stored with its skills as JSON text.  One
\* posting is created.
CreateJobPosting(required_skills) ==
    /\ job_postings = <<>>
    /\ job_postings' =
           Append(job_postings,
                  [title |-> "Engineer", company |-> "Acme",
                   required_skills |-> json_dumps(required_skills)])
    /\ UNCHANGED <<scorerVars, resumes, resume_job_matches, match_response,
                   analyzeVars>>

\* lines 289-306: the match is saved and returned, unless computing the
\* percentage raised
SaveMatch(resume_id, job_id, resume_skills, required_skills, matched, match_percentage) ==
    IF match_percentage.kind = "raised"
    THEN /\ match_response' = InternalServerError(match_percentage.error)
         /\ UNCHANGED resume_job_matches
    ELSE /\ resume_job_matches' =
                Append(resume_job_matches,
                       [resume_id      |-> resume_id,
                        job_id         |-> job_id,
                        match_score    |-> PyInt(match_percentage.num,
                                                 match_percentage.den),
                        matched_skills |-> json_dumps(ListOfSet(matched))])
         /\ match_response' =
                [kind           |-> "ok",
                 match_score    |-> PyInt(match_percentage.num,
                                          match_percentage.den),
                 matched_skills |-> ListOfSet(matched),
                 missing_skills |-> ListOfSet(required_skills \ resume_skills),
                 total_required |-> Cardinality(required_skills),
                 total_matched  |-> Cardinality(matched)]

\* lines 285-287: matched and match_percentage
CalculateMatch(resume_id, job_id, resume_skills, required_skills) ==
    SaveMatch(resume_id, job_id, resume_skills, required_skills,
              resume_skills \cap required_skills,
              MatchPercentage(resume_skills \cap required_skills,
                              required_skills))

\* POST /match/resume/{resume_id}/job/{job_id}
MatchResumeToJob(resume_id, job_id) ==
    /\ Len(resume_job_matches) < MaxMatchRows
    /\ IF resume_id \notin DOMAIN resumes \/ job_id \notin DOMAIN job_postings
       THEN /\ match_response' = HTTPException(404, "Resume or Job not found")
            /\ UNCHANGED resume_job_matches
       ELSE CalculateMatch(resume_id, job_id,
                ResumeSkillSet(resumes[resume_id].skills),
                RequiredSkillSet(job_postings[job_id].required_skills))
    /\ UNCHANGED <<scorerVars, resumes, job_postings, analyzeVars>>

\* the service with one stored resume, before any posting
InitMatch ==
    /\ InitScorer
    /\ tool = "up"
    /\ \E skills \in SUBSET CandidateNames :
           resumes = [id \in {1} |-> Profile(None, skills)]
    /\ InitTables

NextMatch ==
    \/ \E required_skills \in ListsUpTo(RequiredNames, MaxRequired) :
           CreateJobPosting(required_skills)
    \/ \E resume_id \in {1, 2}, job_id \in {1, 2} :
           MatchResumeToJob(resume_id, job_id)

SpecMatch == InitMatch /\ [][NextMatch]_vars

----------------------------------------------------------------------------
(* Claims about the job match *)

\* the last match request was answered with a match report
Matched == match_response.kind = "ok"

\* the last match request found its resume and its posting, and was answered
Answered ==
    /\ match_response.kind # "none"
    /\ ~(match_response.kind = "error" /\ match_response.status_code = 404)

\* the skills of the matched resume and of the posting, as the claims name them
CandidateSet == {lower(n) : n \in resumes[1].skills}
RequiredSet == {lower(x) : x \in ToSet(json_loads(job_postings[1].required_skills))}

\* C5: with a non-empty required set, match_score is
\* round(100 * |matched| / |required|), rounded to the nearest integer.
C5_ScoreRoundedToNearest ==
    (Matched /\ match_response.total_required > 0) =>
        match_response.match_score =
            PyRound(100 * match_response.total_matched,
                    match_response.total_required)

\* C9: after lower-casing, matched_skills = candidate /\ required,
\* missing_skills = required - candidate, total_required = |required| and
\* total_matched = |matched|; with no candidate skill match_score is 0 and
\* missing_skills is the whole required set.
C9_MatchedMissingOfRequired ==
    Matched =>
        /\ ToSet(match_response.matched_skills) = CandidateSet \cap RequiredSet
        /\ ToSet(match_response.missing_skills) = RequiredSet \ CandidateSet
        /\ match_response.total_required = Cardinality(RequiredSet)
        /\ match_response.total_matched =
               Cardinality(CandidateSet \cap RequiredSet)
        /\ Len(match_response.matched_skills) = match_response.total_matched
        /\ (resumes[1].skills = {} =>
               /\ match_response.match_score = 0
               /\ ToSet(match_response.missing_skills) = RequiredSet)

\* C9 witness: a match where the resume and the posting spell a skill in
\* different case, and another required skill is missing
C9_Witness ==
    /\ Matched
    /\ resumes[1].skills = {"Docker", "java"}
    /\ json_loads(job_postings[1].required_skills) = <<"Python", "docker">>
    /\ match_response.matched_skills = <<"docker">>
    /\ match_response.missing_skills = <<"python">>

\* C10: with an empty required set the match does not raise: match_score 0,
\* no missing skill, total_required 0, for every candidate set.
C10_EmptyRequiredSet ==
    (job_postings # <<>> /\ RequiredSet = {} /\ Answered) =>
        /\ Matched
        /\ match_response.match_score = 0
        /\ match_response.missing_skills = <<>>
        /\ match_response.total_required = 0

\* C10 witness: a resume with skills matched against a posting without any
C10_Witness ==
    /\ Matched
    /\ resumes[1].skills = {"python", "java"}
    /\ job_postings[1].required_skills = "[]"
    /\ match_response.total_required = 0

----------------------------------------------------------------------------
(* The analyze endpoints and the resume_scores table, src/main.py *)

\* the requests handled at the same time
RequestIds == {1, 2}

ById == "/resumes/{resume_id}/analyze"
ByEmail == "/analyze-resume/{email}"

\* what the requests ask for: a stored resume and a missing one
RequestedIds == {1, 2}
RequestedEmails == {"ann@x.io", "bob@x.io"}

\* what the engines return to the analyze requests
AnalyzeRawScores == {5160}
AnalyzeErrorCounts == {0, 12}

\* an f-string's rendering of a nullable column
Format(x) == IF x = None THEN "None" ELSE x[1]

\* x or ''
OrEmpty(x) == IF x = None THEN "" ELSE x[1]

\* sep.join of a list
JoinAll(sep, xs) == Join(sep, xs, Len(xs))

RECURSIVE Concat(_, _)
\* the concatenation of the first k strings of xs
Concat(xs, k) == IF k = 0 THEN "" ELSE Concat(xs, k - 1) \o xs[k]

\* lines 210-214: the text /resumes/{resume_id}/analyze scores
TextById(resume) ==
    "\n    " \o OrEmpty(resume.summary)
      \o "\n    " \o JoinAll(" ", ListOfSet(resume.skills))
      \o "\n    "
      \o JoinAll(" ", [i \in 1..Len(resume.work_experiences) |->
                          OrEmpty(resume.work_experiences[i].description)])
      \o "\n    "

\* lines 395-409: the text /analyze-resume/{email} scores
TextByEmail(resume) ==
    "\n        Name: " \o Format(resume.name)
      \o "\n        Email: " \o Format(resume.email)
      \o "\n        Phone: " \o Format(resume.phone)
      \o "\n        \n        Skills: "
      \o JoinAll(", ", ListOfSet(resume.skills))
      \o "\n        \n        Projects:\n        "
      \o Concat([i \in 1..Len(resume.projects) |->
                    "\n" \o Format(resume.projects[i].name) \o ": "
                         \o Format(resume.projects[i].description)],
                Len(resume.projects))
      \o Concat([i \in 1..Len(resume.educations) |->
                    "\n" \o Format(resume.educations[i].degree) \o " at "
                         \o Format(resume.educations[i].institution)],
                Len(resume.educations))

\* generate_score as one step, given what the engines return
generate_score(text, target, engine, raw, n) ==
    IF engine = "down" THEN Raised("EngineUnavailable")
    ELSE Report(target, analyze_skills(text, target),
                calculate_readability(raw), check_grammar(Matches(n)))

\* db.query(models.PersonalInfo).filter(email == email).first(): the id of
\* the resume of that person, or None
PersonalInfoByEmail(email) ==
    IF \E id \in DOMAIN resumes : resumes[id].email = Some(email)
    THEN Some(CHOOSE id \in DOMAIN resumes : resumes[id].email = Some(email))
    ELSE None

\* db.query(models.ResumeScore).filter(resume_id == id).first(): the position
\* of the row, or None
ScoreOf(resume_id) ==
    IF \E i \in DOMAIN resume_scores : resume_scores[i].resume_id = resume_id
    THEN Some(CHOOSE i \in DOMAIN resume_scores :
                  /\ resume_scores[i].resume_id = resume_id
                  /\ \A j \in DOMAIN resume_scores :
                         resume_scores[j].resume_id = resume_id => i <= j)
    ELSE None

\* the columns of a ResumeScore row taken from an analysis; analysis_date,
\* the time of the clock, is left out
ScoreRow(resume_id, analysis) ==
    [resume_id         |-> resume_id,
     overall_score     |-> analysis.overall_score,
     skills_score      |-> analysis.skills_score,
     readability_score |-> analysis.readability_score,
     grammar_score     |-> analysis.grammar_score]

IdleRequest ==
    [pc |-> "idle", endpoint |-> "", email |-> "", resume_id |-> 0,
     resume_text |-> "", existing_score |-> None, analysis |-> NoResult,
     response |-> NoResult]

\* the handler of an endpoint ends with a response before it has read a score
Answer(r, endpoint, email, response) ==
    request' = [request EXCEPT ![r] =
                   [IdleRequest EXCEPT !.pc = "done", !.endpoint = endpoint,
                                       !.email = email, !.response = response]]

\* the handler ends with a response
Respond(r, response) ==
    request' = [request EXCEPT ![r].pc = "done", ![r].response = response]

\* the handler has read existing_score and goes on to save the analysis
GoOnToSave(r, endpoint, email, resume_id, text, analysis) ==
    request' = [request EXCEPT ![r] =
                   [pc |-> "save", endpoint |-> endpoint, email |-> email,
                    resume_id |-> resume_id, resume_text |-> text,
                    existing_score |-> ScoreOf(resume_id),
                    analysis |-> analysis, response |-> NoResult]]

\* the handler goes on with the analysis, or ends with the exception of the
\* scorer: unhandled in /resumes/{resume_id}/analyze, turned into a 500 by
\* the except clause of /analyze-resume/{email}
Scored(r, endpoint, email, resume_id, text, analysis) ==
    IF analysis.kind = "raised"
    THEN Answer(r, endpoint, email,
                IF endpoint = ById THEN InternalServerError(analysis.error)
                ELSE HTTPException(500, analysis.error))
    ELSE GoOnToSave(r, endpoint, email, resume_id, text, analysis)

\* lines 209-217, for the resume found: its text is scored by a new scorer
AnalyzeStored(r, resume_id, text, raw, n) ==
    Scored(r, ById, "", resume_id, text,
           generate_score(text, VOCABULARY, tool, raw, n))

\* /resumes/{resume_id}/analyze, lines 205-223: the resume is read and scored
\* by a scorer of its own, and the stored score is looked up
AnalyzeById(r, resume_id, raw, n) ==
    /\ request[r].pc = "idle"
    /\ IF resume_id \notin DOMAIN resumes
       THEN Answer(r, ById, "", HTTPException(404, "Resume not found"))
       ELSE AnalyzeStored(r, resume_id, TextById(resumes[resume_id]), raw, n)
    /\ UNCHANGED <<scorerVars, resumes, matchVars, resume_scores>>

\* lines 392-417, for the resume of the person found
AnalyzeFound(r, email, resume_id, text, raw, n) ==
    Scored(r, ByEmail, email, resume_id, text,
           generate_score(text, TARGET_SKILLS, tool, raw, n))

\* /analyze-resume/{email}, lines 383-417: the same with the shared scorer,
\* inside try; except Exception turns whatever is raised, the 404 included,
\* into a 500 whose detail is the text of the exception
AnalyzeByEmail(r, email, raw, n) ==
    /\ request[r].pc = "idle"
    /\ IF PersonalInfoByEmail(email) = None
       THEN Answer(r, ByEmail, email,
                   HTTPException(500, "404: Resume not found"))
       ELSE AnalyzeFound(r, email, PersonalInfoByEmail(email)[1],
                         TextByEmail(resumes[PersonalInfoByEmail(email)[1]]),
                         raw, n)
    /\ UNCHANGED <<scorerVars, resumes, matchVars, resume_scores>>

\* lines 225-243 and 419-438: the row read before is updated, or a new row is
\* added, and the session commits.  resume_id is unique (models.py:72): the
\* commit of a second row for the resume raises IntegrityError, which leaves
\* the first handler and is turned into a 500 by the second.
SaveScore(r) ==
    /\ request[r].pc = "save"
    /\ LET req == request[r]
           row == ScoreRow(req.resume_id, req.analysis)
       IN  IF req.existing_score # None
           THEN /\ resume_scores' =
                       [resume_scores EXCEPT ![req.existing_score[1]] = row]
                /\ Respond(r, req.analysis)
           ELSE IF ScoreOf(req.resume_id) # None
                THEN /\ UNCHANGED resume_scores
                     /\ Respond(r, IF req.endpoint = ById
                                   THEN InternalServerError("IntegrityError")
                                   ELSE HTTPException(500, "IntegrityError"))
                ELSE /\ resume_scores' = Append(resume_scores, row)
                     /\ Respond(r, req.analysis)
    /\ UNCHANGED <<scorerVars, resumes, matchVars>>

\* the response is sent; the worker takes the next request
Finish(r) ==
    /\ request[r].pc = "done"
    /\ request' = [request EXCEPT ![r] = IdleRequest]
    /\ UNCHANGED <<scorerVars, resumes, matchVars, resume_scores>>

\* a stored resume whose nullable columns are all null
NullProfile ==
    [Profile(None, {"Docker"}) EXCEPT
        !.name = None,
        !.work_experiences = <<[description |-> None]>>,
        !.projects = <<[name |-> Some("Parser"), description |-> None]>>,
        !.educations = <<[degree |-> None, institution |-> Some("MIT")]>>]

\* a stored resume without a null column
CompleteProfile ==
    [Profile(Some("Python and SQL."), {"Docker"}) EXCEPT
        !.phone = Some("555-0100"),
        !.work_experiences = <<[description |-> Some("Built APIs.")]>>,
        !.projects = <<[name |-> Some("Parser"),
                        description |-> Some("Reads resumes.")]>>,
        !.educations = <<[degree |-> Some("BSc"),
                          institution |-> Some("MIT")]>>]

\* the resumes the service can hold: only the phone missing, every nullable
\* column missing, nothing missing
StoredProfiles ==
    {Profile(Some("Python and SQL."), {"Docker"}), NullProfile, CompleteProfile}

\* the service with one stored resume and no score
InitAnalyze ==
    /\ InitScorer
    /\ resumes \in [{1} -> StoredProfiles]
    /\ job_postings = <<>>
    /\ resume_job_matches = <<>>
    /\ match_response = NoResult
    /\ resume_scores = <<>>
    /\ request = [r \in RequestIds |-> IdleRequest]

NextAnalyze ==
    \E r \in RequestIds :
        \/ \E resume_id \in RequestedIds, raw \in AnalyzeRawScores,
              n \in AnalyzeErrorCounts : AnalyzeById(r, resume_id, raw, n)
        \/ \E email \in RequestedEmails, raw \in AnalyzeRawScores,
              n \in AnalyzeErrorCounts : AnalyzeByEmail(r, email, raw, n)
        \/ SaveScore(r)
        \/ Finish(r)

SpecAnalyze == InitAnalyze /\ [][NextAnalyze]_vars

----------------------------------------------------------------------------
(* Claims about the analyze endpoints *)

\* the rows of resume_scores for a resume
RowsOf(resume_id) ==
    {i \in DOMAIN resume_scores : resume_scores[i].resume_id = resume_id}

\* C7: whatever the order and interleaving of the analyze requests for a
\* resume, at most one ResumeScore row exists for it, and every request for a
\* stored resume completes successfully, with its analysis as the response.
C7_UpsertNeverFails ==
    /\ \A resume_id \in RequestedIds : Cardinality(RowsOf(resume_id)) <= 1
    /\ \A r \in RequestIds :
           (tool = "up" /\ request[r].pc = "done"
                /\ request[r].resume_id \in DOMAIN resumes) =>
               request[r].response.kind = "report"

----------------------------------------------------------------------------
(* Calls of generate_score running at the same time on the shared scorer *)

\* the texts of the concurrent calls, and what the engines return to them
ConcurrentTexts == {"Python, javascript", "machine learning", "learnings. Python"}
ConcurrentRawScores == {5160, 20684}
ConcurrentErrorCounts == {0, 12}

InitConcurrent ==
    /\ InitScorer
    /\ resumes = [id \in {1} |-> Profile(None, {})]
    /\ InitTables

\* the statements of the calls interleave in any order
NextConcurrent ==
    \E c \in CallIds :
        \/ \E text \in ConcurrentTexts : Call(c, text)
        \/ AnalyzeSkills(c)
        \/ \E raw \in ConcurrentRawScores : CalculateReadability(c, raw)
        \/ \E n \in ConcurrentErrorCounts : CheckGrammar(c, n)
        \/ CheckGrammarRaises(c)
        \/ Aggregate(c)

SpecConcurrent == InitConcurrent /\ [][NextConcurrent]_vars

\* the report of a call that runs alone on a scorer as constructed, for the
\* text of call c and what the engines returned to call c
ReportAlone(c) ==
    Report(VOCABULARY, analyze_skills(resume_text[c], VOCABULARY),
           readability_score[c], check_grammar(matches[c]))

\* C8: with calls for different texts running concurrently on the shared
\* scorer, each call's report is the one the call produces when it runs
\* alone, and TARGET_SKILLS is never changed.
C8_CallsDoNotInterfere ==
    /\ TARGET_SKILLS = VOCABULARY
    /\ \A c \in CallIds : Returned(c) => result[c] = ReportAlone(c)

\* C8 witness: two calls for different texts have both returned, with
\* different matched skills and different error lists
C8_Witness ==
    /\ Returned(1)
    /\ Returned(2)
    /\ resume_text[1] = "machine learning"
    /\ resume_text[2] = "learnings. Python"
    /\ result[1].matched_skills = <<"machine learning">>
    /\ ToSet(result[2].matched_skills) = {"python"}
    /\ result[1].grammar_errors # result[2].grammar_errors

----------------------------------------------------------------------------
(* Claims about the feedback and the matcher *)

\* C11: the feedback follows the thresholds on the report's own sub-scores:
\* skills positive iff skills_score > 50, readability positive iff
\* readability_score > 60, grammar positive iff grammar_score > 80 and
\* otherwise the full number of grammar errors.
C11_FeedbackFollowsReportedScores ==
    \A c \in CallIds :
        Returned(c) =>
            /\ (result[c].feedback.skills = "Great job on listing relevant skills!")
                   <=> (result[c].skills_score > 50)
            /\ (result[c].feedback.readability = "Your resume is easy to read.")
                   <=> (result[c].readability_score > 60)
            /\ result[c].feedback.grammar =
                   IF result[c].grammar_score > 80 THEN "Excellent grammar!"
                   ELSE "Found " \o IntToStr(Len(matches[c]))
                            \o " grammar issues."

\* the two tiers on a lower-cased text, its tokens and the matched skills
TwoTiers(text, low, tokens, matched, skills_score) ==
    /\ \A i \in 1..Len(VOCABULARY) :
           (VOCABULARY[i] \in matched) <=>
               IF StrIn(" ", VOCABULARY[i]) THEN StrIn(VOCABULARY[i], low)
               ELSE VOCABULARY[i] \in tokens
    /\ (StrIn("javascript", low) /\ "java" \notin tokens) =>
           "java" \notin matched
    /\ text = ScenarioText =>
           /\ matched = {"python", "machine learning"}
           /\ skills_score = 20

\* C12: an entry without white space is matched iff a token of the
\* lower-cased text equals it, an entry with white space iff the lower-cased
\* text contains it; the scenario text matches python and machine learning
\* and scores 20.
C12_TwoTiers ==
    \A c \in CallIds :
        Returned(c) =>
            TwoTiers(resume_text[c], lower(resume_text[c]),
                     Tokenize(lower(resume_text[c])),
                     ToSet(result[c].matched_skills), result[c].skills_score)

\* C12 witness: the report for the scenario text
C12_Witness ==
    \E c \in CallIds :
        /\ Returned(c)
        /\ resume_text[c] = ScenarioText
        /\ Len(result[c].matched_skills) = 2
        /\ result[c].skills_score = 20

\* C12 witness of the tiers: javascript without java, and a phrase found
\* inside longer words
C12_WitnessTiers ==
    \E c \in CallIds :
        /\ Returned(c)
        /\ resume_text[c] = "javascript machine"
        /\ result[c].matched_skills = <<"javascript">>

----------------------------------------------------------------------------
(* Claims about the inputs of generate_score *)

\* C14: generate_score on a null text fails fast with the InvalidInput error
\* condition before any sub-score is produced; null is not treated as the
\* empty string and no report is returned.
C14_NullTextIsInvalidInput ==
    \A c \in CallIds :
        (pc[c] = "done" /\ c \in none_text) =>
            /\ result[c] = Raised("InvalidInput")
            /\ matched_skills[c] = <<>>
            /\ readability_score[c] = 0
            /\ matches[c] = <<>>

\* C15: on the empty text generate_score does not raise and returns no
\* matched skills, no grammar errors, grammar_score 100, readability_score 0
\* and overall_score 30.
C15_EmptyText ==
    \A c \in CallIds :
        (pc[c] = "done" /\ c \notin none_text /\ resume_text[c] = ""
             /\ tool = "up") =>
            /\ result[c].kind = "report"
            /\ result[c].matched_skills = <<>>
            /\ result[c].grammar_errors = <<>>
            /\ result[c].grammar_score = 100
            /\ result[c].readability_score = 0
            /\ result[c].overall_score = 30

----------------------------------------------------------------------------
(* The other endpoints keyed by e-mail, src/main.py *)

Suggestions == "/get-suggestions/{email}"
GetResume == "GET /resume/{email}"
DeleteResume == "DELETE /resume/{email}"

\* the endpoints whose path holds an e-mail address
EmailKeyed == {ByEmail, Suggestions, GetResume, DeleteResume}

\* the worker of the specification SpecEmail: one request at a time
OneRequest == {1}

\* what the Gemini model does with the prompt: it answers with JSON, with
\* text that json.loads rejects, or generate_content raises
GeminiReplies == {"json", "JSONDecodeError", "ServiceUnavailable"}

\* resume.score of the one-to-one relationship: the row of the resume or None
StoredScore(resume_id) ==
    IF ScoreOf(resume_id) = None THEN None
    ELSE Some(resume_scores[ScoreOf(resume_id)[1]])

\* lines 575-614: the dictionary /resume/{email} returns
ResumeView(resume, score) ==
    [kind            |-> "resume",
     personal_info   |-> [name  |-> resume.name, email |-> resume.email,
                          phone |-> resume.phone],
     skills          |-> resume.skills,
     projects        |-> resume.projects,
     education       |-> resume.educations,
     work_experience |-> resume.work_experiences,
     score           |-> IF score = None THEN None
                         ELSE Some([overall     |-> score[1].overall_score,
                                    skills      |-> score[1].skills_score,
                                    readability |-> score[1].readability_score,
                                    grammar     |-> score[1].grammar_score])]

\* /get-suggestions/{email}, lines 445-529: nothing is written; the 404, an
\* error of the Gemini call and a reply that is not JSON all leave through
\* except Exception as a 500
GetSuggestions(r, email, reply) ==
    /\ request[r].pc = "idle"
    /\ Answer(r, Suggestions, email,
              IF PersonalInfoByEmail(email) = None
              THEN HTTPException(500, "404: Resume not found")
              ELSE IF reply = "json" THEN [kind |-> "suggestions"]
              ELSE HTTPException(500, reply))
    /\ UNCHANGED <<scorerVars, resumes, matchVars, resume_scores>>

\* GET /resume/{email}, lines 561-617: nothing is written; the 404 leaves
\* through except Exception as a 500
GetResumeByEmail(r, email) ==
    /\ request[r].pc = "idle"
    /\ Answer(r, GetResume, email,
              IF PersonalInfoByEmail(email) = None
              THEN HTTPException(500, "404: Resume not found")
              ELSE ResumeView(resumes[PersonalInfoByEmail(email)[1]],
                              StoredScore(PersonalInfoByEmail(email)[1])))
    /\ UNCHANGED <<scorerVars, resumes, matchVars, resume_scores>>

\* db.delete(resume); db.commit(): the resume goes with what cascades from it
\* (models.py:16-21), its score included
DeleteCascade(resume_id) ==
    /\ resumes' = [id \in DOMAIN resumes \ {resume_id} |-> resumes[id]]
    /\ resume_scores' =
           SelectSeq(resume_scores, LAMBDA row : row.resume_id # resume_id)

\* DELETE /resume/{email}, lines 621-644: the 404 leaves through except
\* Exception, after a rollback of nothing, as a 500
DeleteResumeByEmail(r, email) ==
    /\ request[r].pc = "idle"
    /\ IF PersonalInfoByEmail(email) = None
       THEN /\ Answer(r, DeleteResume, email,
                      HTTPException(500, "404: Resume not found"))
            /\ UNCHANGED <<resumes, resume_scores>>
       ELSE /\ Answer(r, DeleteResume, email,
                      [kind |-> "ok", message |-> "Resume deleted successfully"])
            /\ DeleteCascade(PersonalInfoByEmail(email)[1])
    /\ UNCHANGED <<scorerVars, matchVars>>

NextEmail ==
    \E r \in OneRequest :
        \/ \E email \in RequestedEmails, raw \in AnalyzeRawScores,
              n \in AnalyzeErrorCounts : AnalyzeByEmail(r, email, raw, n)
        \/ SaveScore(r)
        \/ \E email \in RequestedEmails, reply \in GeminiReplies :
               GetSuggestions(r, email, reply)
        \/ \E email \in RequestedEmails : GetResumeByEmail(r, email)
        \/ \E email \in RequestedEmails : DeleteResumeByEmail(r, email)
        \/ Finish(r)

SpecEmail == InitAnalyze /\ [][NextEmail]_vars

----------------------------------------------------------------------------
(* Claims about the resume text and the e-mail keyed endpoints *)

\* C13: in either analyze endpoint a null field of the stored profile
\* contributes the empty string: the text "None" never appears in the
\* resume_text that is scored.
C13_NoNoneInResumeText ==
    \A r \in RequestIds :
        (request[r].endpoint \in {ById, ByEmail}
             /\ request[r].analysis.kind = "report") =>
            ~StrIn("None", request[r].resume_text)

\* handler r has just answered a request of an e-mail keyed endpoint for an
\* address without a PersonalInfo record
AnsweredUnknownEmail(r) ==
    /\ request[r].pc = "idle"
    /\ request'[r].pc = "done"
    /\ request'[r].endpoint \in EmailKeyed
    /\ PersonalInfoByEmail(request'[r].email) = None

\* C16: a request to an e-mail keyed endpoint for an address without a
\* PersonalInfo record ends with the 404 response "Resume not found" and
\* leaves the stored scores and resumes unchanged.
C16_UnknownEmailIs404 ==
    [][\A r \in RequestIds :
           AnsweredUnknownEmail(r) =>
               /\ request'[r].response
                      = HTTPException(404, "Resume not found")
               /\ resumes' = resumes
               /\ resume_scores' = resume_scores]_vars

====
